---- MODULE Spec2Model ----
(***************************************************************************)
(* A model of the ShivyC parser (src/parser.py): the token matcher, the    *)
(* grammar productions of Parser, the shift-reduce expression engine       *)
(* parse_expression and the best-error tracker log_error.                  *)
(*                                                                         *)
(* Positions are 0-based as in the Python source; the token at Python      *)
(* position p is tokens[p + 1] here.                                       *)
(***************************************************************************)
EXTENDS Integers, Sequences, FiniteSets, TLC

VARIABLES
    tokens,      \* self.tokens
    best_error,  \* self.best_error
    pc,          \* the statement of the parser that runs next
    main_index,  \* parse_main: index
    nodes,       \* parse_main: nodes
    caller,      \* the production that called parse_expression
    expr_index,  \* parse_expression: index
    i,           \* parse_expression: i
    stack,       \* parse_expression: stack
    stmt_node,   \* parse_return, parse_expr_statement: node
    stmt_index,  \* parse_return, parse_expr_statement: index
    exc,         \* the ParserError in flight from a raise to its except clause
    result,      \* what the entry point returned or raised
    logged,      \* history: the errors passed to log_error, oldest first
    raised,      \* history: the ParserErrors raised, with the raising production
    m_index,     \* match_tokens, called on its own: index
    m_kinds      \* match_tokens, called on its own: kinds_expected

vars == <<tokens, best_error, pc, main_index, nodes, caller, expr_index, i,
          stack, stmt_node, stmt_index, exc, result, logged, raised,
          m_index, m_kinds>>

(***************************************************************************)
(* Bounds of the checked inputs.                                           *)
(***************************************************************************)
\* longest token list drawn from the whole alphabet
MaxTokens == 3
\* longest token list drawn from the kinds of expressions
MaxExprTokens == 4
\* longest generated well-formed expression, in tokens
MaxExprLen == 9
\* longest generated well-formed function body, in tokens
MaxBodyTokens == 8
\* longest list of kinds handed to match_tokens
MaxKinds == 4

(***************************************************************************)
(* Tokens and token kinds (tokens.Token, token_kinds).                     *)
(***************************************************************************)
int_kw == "int"
main == "main"
return_kw == "return"
open_paren == "("
close_paren == ")"
open_brack == "{"
close_brack == "}"
semicolon == ";"
plus == "+"
star == "*"
equals == "="
number == "number"
identifier == "identifier"

TokenKinds == {int_kw, main, return_kw, open_paren, close_paren, open_brack,
               close_brack, semicolon, plus, star, equals, number, identifier}

\* A Token object: its kind, and the place in the input it was lexed from,
\* which tells two tokens of the same kind apart.
Token(kind, pos) == [type |-> "Token", kind |-> kind, pos |-> pos]

\* The token list the lexer yields for a sequence of kinds.
Lex(kinds) == [p \in 1..Len(kinds) |-> Token(kinds[p], p - 1)]

IsToken(x) == x.type = "Token"
IsNode(x) == x.type # "Token"

(***************************************************************************)
(* AST nodes (the constructors parse_* call).                              *)
(***************************************************************************)
NumberNode(tok) == [type |-> "NumberNode", number |-> tok]
IdentifierNode(tok) == [type |-> "IdentifierNode", identifier |-> tok]
ParenExprNode(expr) == [type |-> "ParenExprNode", expr |-> expr]
BinaryOperatorNode(left, operator, right) ==
    [type |-> "BinaryOperatorNode", left_expr |-> left, operator |-> operator,
     right_expr |-> right]
ReturnNode(expr) == [type |-> "ReturnNode", return_value |-> expr]
ExprStatementNode(expr) == [type |-> "ExprStatementNode", expr |-> expr]
DeclarationNode(tok) == [type |-> "DeclarationNode", variable_name |-> tok]
MainNode(body) == [type |-> "MainNode", block_items |-> body]

(***************************************************************************)
(* ParserError (errors.py): message, the index it was raised with, the     *)
(* anchoring mode, and amount_parsed, the number of tokens parsed before   *)
(* the failure.                                                            *)
(***************************************************************************)
AT == "AT"
GOT == "GOT"
AFTER == "AFTER"

ParserError(message, index, message_type) ==
    [type |-> "ParserError", message |-> message, index |-> index,
     message_type |-> message_type, amount_parsed |-> index]

None == [type |-> "None"]
MatchError == [type |-> "MatchError"]

\* The two ways a call ends: it returns a value or raises an exception.
Returned(value) == [type |-> "return", value |-> value]
Raised(error) == [type |-> "raise", error |-> error]

(***************************************************************************)
(* Utility functions of the parser.                                        *)
(***************************************************************************)
\* match_tokens: returns the index past the matched kinds, or raises
\* MatchError.
\* self.tokens[index:]
TokensFrom(index) == SubSeq(tokens, index + 1, Len(tokens))

\* The positions zip(a, b) pairs up: those of the shorter sequence.
Zip(a, b) == 1..(IF Len(a) <= Len(b) THEN Len(a) ELSE Len(b))

\* Mutant of match_tokens: the test of the number of tokens left out.
match_tokens_unchecked(index, kinds_expected) ==
    LET toks == TokensFrom(index)
    IN  IF \A k \in Zip(kinds_expected, toks) : kinds_expected[k] = toks[k].kind
        THEN Returned(index + Len(kinds_expected))
        ELSE MatchError

match_tokens(index, kinds_expected) ==
    LET toks == TokensFrom(index)
    IN  IF Len(toks) < Len(kinds_expected)
        THEN MatchError
        ELSE IF \A k \in Zip(kinds_expected, toks) :
                    kinds_expected[k] = toks[k].kind
             THEN Returned(index + Len(kinds_expected))
             ELSE MatchError

match_token(index, kind_expected) == match_tokens(index, <<kind_expected>>)

\* Mutant of except_MatchError: no except clause, the MatchError goes on.
except_nothing(m, error) == IF m = MatchError THEN Raised(MatchError) ELSE m

\* try: match ... except MatchError: raise ParserError(...)
except_MatchError(m, error) == IF m = MatchError THEN Raised(error) ELSE m

\* Mutant of log_error: > in place of >=.
log_error_strict(best, error) ==
    IF best = None \/ error.amount_parsed > best.amount_parsed
    THEN error
    ELSE best

\* Mutant of log_error: the comparison left out, the latest error kept.
log_error_latest(best, error) == error

\* log_error: the new value of best_error.
log_error(best, error) ==
    IF best = None \/ error.amount_parsed >= best.amount_parsed
    THEN error
    ELSE best

(***************************************************************************)
(* The expression engine: parse_expression.                                *)
(***************************************************************************)
binary_operators == [p \in {plus, star, equals} |->
                        IF p = plus THEN 11 ELSE IF p = star THEN 12 ELSE 1]

assignment_operators == {equals}

StackItem(item, length) == [item |-> item, length |-> length]

\* stack[-k]
Top(st, k) == st[Len(st) + 1 - k]

\* del stack[-3:]
DropThree(st) == SubSeq(st, 1, Len(st) - 3)

\* The top of the stack is a raw token of the given kind.
TopIsToken(st, kind) ==
    /\ Len(st) >= 1
    /\ IsToken(Top(st, 1).item)
    /\ Top(st, 1).item.kind = kind

\* The top of the stack matches ( expr ).
ParenMatch(st) ==
    /\ Len(st) >= 3
    /\ IsToken(Top(st, 1).item)
    /\ Top(st, 1).item.kind = close_paren
    /\ IsNode(Top(st, 2).item)
    /\ IsToken(Top(st, 3).item)
    /\ Top(st, 3).item.kind = open_paren

\* Mutant of NextIsHigherPrecedence: the comparison of precedences reversed.
NextIsLowerPrecedence(st, at) ==
    /\ at < Len(tokens)
    /\ tokens[at + 1].kind \in DOMAIN binary_operators
    /\ binary_operators[tokens[at + 1].kind] <
           binary_operators[Top(st, 2).item.kind]

\* Mutant of NextIsHigherPrecedence: >= in place of >.
NextIsNotLowerPrecedence(st, at) ==
    /\ at < Len(tokens)
    /\ tokens[at + 1].kind \in DOMAIN binary_operators
    /\ binary_operators[tokens[at + 1].kind] >=
           binary_operators[Top(st, 2).item.kind]

\* The next token is a binary operator of higher precedence than the stacked
\* operator.
NextIsHigherPrecedence(st, at) ==
    /\ at < Len(tokens)
    /\ tokens[at + 1].kind \in DOMAIN binary_operators
    /\ binary_operators[tokens[at + 1].kind] >
           binary_operators[Top(st, 2).item.kind]

\* Mutant of BothAssignment: the test for two assignment tokens left out.
NoAssignmentTest(st, at) == FALSE

\* The stacked operator and the next token are both assignment tokens.
BothAssignment(st, at) ==
    /\ at < Len(tokens)
    /\ Top(st, 2).item.kind \in assignment_operators
    /\ tokens[at + 1].kind \in assignment_operators

\* The top of the stack matches expr operator expr and may be reduced now.
BinaryMatch(st, at) ==
    /\ Len(st) >= 3
    /\ IsNode(Top(st, 1).item)
    /\ IsToken(Top(st, 2).item)
    /\ Top(st, 2).item.kind \in DOMAIN binary_operators
    /\ IsNode(Top(st, 3).item)
    /\ ~NextIsHigherPrecedence(st, at)
    /\ ~BothAssignment(st, at)

\* No reduction applies: the else branch of the loop body.
NoReduction(st, at) ==
    /\ ~TopIsToken(st, number)
    /\ ~TopIsToken(st, identifier)
    /\ ~ParenMatch(st)
    /\ ~BinaryMatch(st, at)

\* The token at position at may be shifted.
Shiftable(at) ==
    /\ at # Len(tokens)
    /\ ~ (/\ tokens[at + 1].kind # number
          /\ tokens[at + 1].kind # identifier
          /\ tokens[at + 1].kind # open_paren
          /\ tokens[at + 1].kind # close_paren
          /\ tokens[at + 1].kind \notin DOMAIN binary_operators)

\* The stack left by each reduction.
ReducedNumber(st) ==
    Append(SubSeq(st, 1, Len(st) - 1),
           StackItem(NumberNode(Top(st, 1).item), 1))

ReducedIdentifier(st) ==
    Append(SubSeq(st, 1, Len(st) - 1),
           StackItem(IdentifierNode(Top(st, 1).item), 1))

\* Mutant of ReducedParen: the inner expression is not wrapped in a
\* ParenExprNode.
ReducedParenUnwrapped(st) ==
    Append(DropThree(st), StackItem(Top(st, 2).item, Top(st, 2).length + 2))

\* Mutant of ReducedParen: one parenthesis counted, not two.
ReducedParenShort(st) ==
    Append(DropThree(st),
           StackItem(ParenExprNode(Top(st, 2).item), Top(st, 2).length + 1))

ReducedParen(st) ==
    Append(DropThree(st),
           StackItem(ParenExprNode(Top(st, 2).item), Top(st, 2).length + 2))

\* Mutant of ReducedBinary: the operands change places.
ReducedBinarySwapped(st) ==
    Append(DropThree(st),
           StackItem(BinaryOperatorNode(Top(st, 1).item, Top(st, 2).item,
                                        Top(st, 3).item),
                     Top(st, 3).length + Top(st, 2).length + Top(st, 1).length))

\* Mutant of ReducedBinary: the length of the operator left out.
ReducedBinaryOperandsOnly(st) ==
    Append(DropThree(st),
           StackItem(BinaryOperatorNode(Top(st, 3).item, Top(st, 2).item,
                                        Top(st, 1).item),
                     Top(st, 3).length + Top(st, 1).length))

ReducedBinary(st) ==
    Append(DropThree(st),
           StackItem(BinaryOperatorNode(Top(st, 3).item, Top(st, 2).item,
                                        Top(st, 1).item),
                     Top(st, 3).length + Top(st, 2).length + Top(st, 1).length))

\* Mutant of ExpressionParsed: the stack must hold the expression node alone.
ExpressionAloneOnStack(st) == Len(st) = 1 /\ IsNode(st[1].item)

\* The test after the loop: the bottom of the stack is an expression node.
ExpressionParsed(st) == Len(st) >= 1 /\ IsNode(st[1].item)

frame == <<tokens, best_error, main_index, nodes, stmt_node, stmt_index,
           logged, m_index, m_kinds>>

ReduceNumber ==
    /\ pc = "expr_loop"
    /\ TopIsToken(stack, number)
    /\ stack' = ReducedNumber(stack)
    /\ UNCHANGED <<frame, pc, caller, expr_index, i, exc, result, raised>>

ReduceIdentifier ==
    /\ pc = "expr_loop"
    /\ ~TopIsToken(stack, number)
    /\ TopIsToken(stack, identifier)
    /\ stack' = ReducedIdentifier(stack)
    /\ UNCHANGED <<frame, pc, caller, expr_index, i, exc, result, raised>>

ReduceParen ==
    /\ pc = "expr_loop"
    /\ ~TopIsToken(stack, number)
    /\ ~TopIsToken(stack, identifier)
    /\ ParenMatch(stack)
    /\ stack' = ReducedParen(stack)
    /\ UNCHANGED <<frame, pc, caller, expr_index, i, exc, result, raised>>

ReduceBinary ==
    /\ pc = "expr_loop"
    /\ ~TopIsToken(stack, number)
    /\ ~TopIsToken(stack, identifier)
    /\ ~ParenMatch(stack)
    /\ BinaryMatch(stack, i)
    /\ stack' = ReducedBinary(stack)
    /\ UNCHANGED <<frame, pc, caller, expr_index, i, exc, result, raised>>

\* Mutant of Shift: i += 1 left out.
ShiftWithoutAdvance ==
    /\ pc = "expr_loop"
    /\ NoReduction(stack, i)
    /\ Shiftable(i)
    /\ stack' = Append(stack, StackItem(tokens[i + 1], 1))
    /\ UNCHANGED <<frame, pc, caller, expr_index, i, exc, result, raised>>

Shift ==
    /\ pc = "expr_loop"
    /\ NoReduction(stack, i)
    /\ Shiftable(i)
    /\ stack' = Append(stack, StackItem(tokens[i + 1], 1))
    /\ i' = i + 1
    /\ UNCHANGED <<frame, pc, caller, expr_index, exc, result, raised>>

Break ==
    /\ pc = "expr_loop"
    /\ NoReduction(stack, i)
    /\ ~Shiftable(i)
    /\ pc' = "expr_end"
    /\ UNCHANGED <<frame, caller, expr_index, i, stack, exc, result, raised>>

\* Records that production by raised error while the production named in
\* within was running.
Raising(error, by, within) ==
    Append(raised, [error |-> error, by |-> by, within |-> within])

\* Mutant of Handler: parse_statement does not catch what parse_return
\* raises, so parse_expr_statement is never tried.
HandlerWithoutAlternative(of) ==
    IF of \in {"parse_return", "parse_expr_statement"}
    THEN "main_except_statement"
    ELSE "done"

\* The except clause that receives a ParserError raised in a production:
\* parse_statement catches what parse_return raises, parse_main what
\* parse_statement lets through from parse_expr_statement.
Handler(of) ==
    IF of = "parse_return" THEN "statement_except"
    ELSE IF of = "parse_expr_statement" THEN "main_except_statement"
    ELSE "done"

\* raise error in the production by, called within the production within:
\* the except clauses catch ParserError, and handler is the one in reach;
\* any other exception leaves parse.
Raise(error, by, within, handler) ==
    IF error.type = "ParserError"
    THEN /\ exc' = error
         /\ raised' = Raising(error, by, within)
         /\ pc' = handler
         /\ UNCHANGED result
    ELSE /\ result' = Raised(error)
         /\ pc' = "done"
         /\ UNCHANGED <<exc, raised>>

\* The test after the loop succeeds: return (stack[0].item, index +
\* stack[0].length).
ExprReturn ==
    /\ pc = "expr_end"
    /\ ExpressionParsed(stack)
    /\ IF caller = "none"
       THEN /\ result' = Returned(<<stack[1].item,
                                    expr_index + stack[1].length>>)
            /\ pc' = "done"
            /\ UNCHANGED <<stmt_node, stmt_index>>
       ELSE /\ stmt_node' = stack[1].item
            /\ stmt_index' = expr_index + stack[1].length
            /\ pc' = "expect_semicolon"
            /\ UNCHANGED result
    /\ UNCHANGED <<m_index, m_kinds,
                   tokens, best_error, main_index, nodes, logged, caller,
                   expr_index, i, stack, exc, raised>>

\* Mutant of ExprRaise: the error is raised with i, not with index.
ExprRaiseAtCursor ==
    /\ pc = "expr_end"
    /\ ~ExpressionParsed(stack)
    /\ LET error == ParserError("expected expression", i, GOT)
       IN  /\ raised' = Raising(error, "parse_expression", caller)
           /\ IF caller = "none"
              THEN result' = Raised(error) /\ UNCHANGED exc
              ELSE exc' = error /\ UNCHANGED result
    /\ pc' = Handler(caller)
    /\ UNCHANGED <<frame, caller, expr_index, i, stack>>

\* The test after the loop fails: raise "expected expression".
ExprRaise ==
    /\ pc = "expr_end"
    /\ ~ExpressionParsed(stack)
    /\ LET error == ParserError("expected expression", expr_index, GOT)
       IN  /\ raised' = Raising(error, "parse_expression", caller)
           /\ IF caller = "none"
              THEN result' = Raised(error) /\ UNCHANGED exc
              ELSE exc' = error /\ UNCHANGED result
    /\ pc' = Handler(caller)
    /\ UNCHANGED <<frame, caller, expr_index, i, stack>>

(***************************************************************************)
(* The grammar productions.                                                *)
(***************************************************************************)
kinds_before == <<int_kw, main, open_paren, close_paren, open_brack>>

\* Mutant of expect_semicolon: the error is anchored GOT, not AFTER.
expect_semicolon_got(index) ==
    except_MatchError(match_token(index, semicolon),
                      ParserError("expected semicolon", index, GOT))

\* expect_semicolon: returns index + 1 or raises "expected semicolon".
expect_semicolon(index) ==
    except_MatchError(match_token(index, semicolon),
                      ParserError("expected semicolon", index, AFTER))

\* parse_declaration: returns (DeclarationNode, index) or raises.
parse_declaration(index) ==
    LET m1 == except_MatchError(match_token(index, int_kw),
                                ParserError("expected type name", index, GOT))
    IN  IF m1.type = "raise"
        THEN m1
        ELSE
    LET m2 == except_MatchError(match_token(m1.value, identifier),
                                ParserError("expected identifier", m1.value,
                                            AFTER))
    IN  IF m2.type = "raise"
        THEN m2
        ELSE
    LET variable_name == tokens[(m2.value - 1) + 1]
        s == expect_semicolon(m2.value)
    IN  IF s.type = "raise"
        THEN s
        ELSE Returned(<<DeclarationNode(variable_name), s.value>>)

\* The function that raises the error parse_declaration ends with.
DeclarationRaiser(error) ==
    IF error.message = "expected semicolon" THEN "expect_semicolon"
    ELSE "parse_declaration"

\* Entering parse_expression(index) on behalf of a production.
CallExpression(index, from) ==
    /\ caller' = from
    /\ expr_index' = index
    /\ i' = index
    /\ stack' = <<>>
    /\ pc' = "expr_loop"

\* parse, parse_main: the opening of the main function.
ParseMainOpening ==
    /\ pc = "parse"
    /\ LET m == except_MatchError(
                    match_tokens(0, kinds_before),
                    ParserError("expected main function starting", 0, AT))
       IN  IF m.type = "raise"
           THEN /\ Raise(m.error, "parse_main", "parse_main", "parse_except")
                /\ UNCHANGED <<main_index, nodes>>
           ELSE /\ main_index' = m.value
                /\ nodes' = <<>>
                /\ pc' = "parse_statement"
                /\ UNCHANGED <<exc, raised, result>>
    /\ UNCHANGED <<m_index, m_kinds, tokens, best_error, caller, expr_index,
                   i, stack, stmt_node, stmt_index, logged>>

\* parse_main calls parse_statement, which calls parse_return: the return
\* keyword, then the call of parse_expression.
ParseReturn ==
    /\ pc = "parse_statement"
    /\ LET m == except_MatchError(
                    match_token(main_index, return_kw),
                    ParserError("expected return keyword", main_index, GOT))
       IN  IF m.type = "raise"
           THEN /\ Raise(m.error, "parse_return", "parse_return",
                         Handler("parse_return"))
                /\ UNCHANGED <<caller, expr_index, i, stack>>
           ELSE /\ CallExpression(m.value, "parse_return")
                /\ UNCHANGED <<exc, raised, result>>
    /\ UNCHANGED frame

\* Mutant of StatementExcept: the error of parse_return is not logged.
StatementExceptWithoutLog ==
    /\ pc = "statement_except"
    /\ exc' = None
    /\ CallExpression(main_index, "parse_expr_statement")
    /\ UNCHANGED <<frame, result, raised>>

\* parse_statement: the except clause logs the error of parse_return, then
\* parse_expr_statement is called and calls parse_expression.
StatementExcept ==
    /\ pc = "statement_except"
    /\ best_error' = log_error(best_error, exc)
    /\ logged' = Append(logged, exc)
    /\ exc' = None
    /\ CallExpression(main_index, "parse_expr_statement")
    /\ UNCHANGED <<m_index, m_kinds,
                   tokens, main_index, nodes, stmt_node, stmt_index, result,
                   raised>>

\* parse_return, parse_expr_statement: the semicolon after the expression;
\* on success the statement node reaches parse_main, which appends it and
\* continues the loop.
ExpectSemicolon ==
    /\ pc = "expect_semicolon"
    /\ LET s == expect_semicolon(stmt_index)
       IN  IF s.type = "raise"
           THEN /\ Raise(s.error, "expect_semicolon", caller,
                         Handler(caller))
                /\ UNCHANGED <<nodes, main_index>>
           ELSE /\ nodes' = Append(nodes,
                                   IF caller = "parse_return"
                                   THEN ReturnNode(stmt_node)
                                   ELSE ExprStatementNode(stmt_node))
                /\ main_index' = s.value
                /\ pc' = "parse_statement"
                /\ UNCHANGED <<exc, raised, result>>
    /\ UNCHANGED <<m_index, m_kinds, tokens, best_error, caller, expr_index,
                   i, stack, stmt_node, stmt_index, logged>>

\* parse_main: the except clause logs the error of parse_statement.
MainExceptStatement ==
    /\ pc = "main_except_statement"
    /\ best_error' = log_error(best_error, exc)
    /\ logged' = Append(logged, exc)
    /\ exc' = None
    /\ pc' = "parse_declaration"
    /\ UNCHANGED <<m_index, m_kinds,
                   tokens, main_index, nodes, caller, expr_index, i, stack,
                   stmt_node, stmt_index, result, raised>>

\* parse_main calls parse_declaration; on success it appends the node and
\* continues the loop.
ParseDeclaration ==
    /\ pc = "parse_declaration"
    /\ LET d == parse_declaration(main_index)
       IN  IF d.type = "raise"
           THEN /\ Raise(d.error, DeclarationRaiser(d.error),
                         "parse_declaration", "main_except_declaration")
                /\ UNCHANGED <<nodes, main_index>>
           ELSE /\ nodes' = Append(nodes, d.value[1])
                /\ main_index' = d.value[2]
                /\ pc' = "parse_statement"
                /\ UNCHANGED <<exc, raised, result>>
    /\ UNCHANGED <<m_index, m_kinds, tokens, best_error, caller, expr_index,
                   i, stack, stmt_node, stmt_index, logged>>

\* parse_main: the except clause logs the error of parse_declaration and
\* breaks out of the loop.
MainExceptDeclaration ==
    /\ pc = "main_except_declaration"
    /\ best_error' = log_error(best_error, exc)
    /\ logged' = Append(logged, exc)
    /\ exc' = None
    /\ pc' = "closing_brace"
    /\ UNCHANGED <<m_index, m_kinds,
                   tokens, main_index, nodes, caller, expr_index, i, stack,
                   stmt_node, stmt_index, result, raised>>

\* parse_main: the closing brace after the loop, and the return to parse.
MainClosingBrace ==
    /\ pc = "closing_brace"
    /\ LET m == except_MatchError(
                    match_token(main_index, close_brack),
                    ParserError("expected closing brace", main_index, GOT))
       IN  IF m.type = "raise"
           THEN /\ Raise(m.error, "parse_main", "parse_main", "parse_except")
                /\ UNCHANGED main_index
           ELSE /\ main_index' = m.value
                /\ pc' = "parse_leftover"
                /\ UNCHANGED <<exc, raised, result>>
    /\ UNCHANGED <<m_index, m_kinds, tokens, best_error, nodes, caller,
                   expr_index, i, stack, stmt_node, stmt_index, logged>>

\* parse: the except clause logs the error of parse_main and raises
\* best_error.
ParseExcept ==
    /\ pc = "parse_except"
    /\ best_error' = log_error(best_error, exc)
    /\ logged' = Append(logged, exc)
    /\ exc' = None
    /\ result' = Raised(best_error')
    /\ pc' = "done"
    /\ UNCHANGED <<m_index, m_kinds,
                   tokens, main_index, nodes, caller, expr_index, i, stack,
                   stmt_node, stmt_index, raised>>

\* Mutant of TokensLeft: one token after the main function goes unnoticed.
TokensLeftAfterNext(index) == index + 1 < Len(tokens)

\* self.tokens[index:] is not empty.
TokensLeft(index) == index < Len(tokens)

\* parse: no token may be left after the main function.
ParseLeftover ==
    /\ pc = "parse_leftover"
    /\ IF TokensLeft(main_index)
       THEN LET error == ParserError("unexpected token", main_index, AT)
            IN  /\ result' = Raised(error)
                /\ raised' = Raising(error, "parse", "parse")
       ELSE /\ result' = Returned(MainNode(nodes))
            /\ UNCHANGED raised
    /\ pc' = "done"
    /\ UNCHANGED <<frame, caller, expr_index, i, stack, exc>>

(***************************************************************************)
(* The inputs: token lists, given by their kinds.                          *)
(***************************************************************************)
\* Every sequence over S of length at most n.
SeqsUpTo(S, n) == UNION {[1..k -> S] : k \in 0..n}

Operators == DOMAIN binary_operators

\* The kinds parse_expression shifts, and one it stops at.
ExprKinds == {number, identifier, open_paren, close_paren, semicolon}
                 \cup Operators

\* The kinds that occur in a function body.
BodyKinds == ExprKinds \cup {int_kw, return_kw, close_brack}

\* The well-formed expressions of n tokens: a unit is an operand or a
\* parenthesized expression, an expression is a unit or a unit, an operator
\* and an expression.
RECURSIVE UnitsOfLen(_), ExprsOfLen(_)
UnitsOfLen(n) ==
    IF n = 1 THEN {<<identifier>>}
    ELSE IF n >= 3
         THEN {<<open_paren>> \o e \o <<close_paren>> : e \in ExprsOfLen(n - 2)}
         ELSE {}
ExprsOfLen(n) ==
    IF n < 1 THEN {}
    ELSE UnitsOfLen(n)
         \cup UNION {{u \o <<op>> \o e : u \in UnitsOfLen(k), op \in Operators,
                                         e \in ExprsOfLen(n - k - 1)}
                     : k \in 1..(n - 2)}

WellFormedExprs == UNION {ExprsOfLen(n) : n \in 1..MaxExprLen}

\* The well-formed items of n tokens: a declaration, a return statement or
\* an expression statement.
ItemsOfLen(n) ==
    (IF n = 3 THEN {<<int_kw, identifier, semicolon>>} ELSE {})
    \cup {<<return_kw>> \o e \o <<semicolon>> : e \in ExprsOfLen(n - 2)}
    \cup {e \o <<semicolon>> : e \in ExprsOfLen(n - 1)}

\* The well-formed function bodies of n tokens, each with its items.
RECURSIVE BodiesOfLen(_)
BodiesOfLen(n) ==
    IF n = 0 THEN {<<>>}
    ELSE UNION {{<<it>> \o b : it \in ItemsOfLen(k), b \in BodiesOfLen(n - k)}
                : k \in 1..n}

RECURSIVE Flatten(_)
Flatten(seqs) ==
    IF seqs = <<>> THEN <<>> ELSE Head(seqs) \o Flatten(Tail(seqs))

WellFormedBodies == UNION {BodiesOfLen(n) : n \in 0..MaxBodyTokens}

\* The well-formed programs: int main ( ) { items }.
Program(items) == kinds_before \o Flatten(items) \o <<close_brack>>
WellFormedPrograms == {Program(b) : b \in WellFormedBodies}

Prefixes(s) == {SubSeq(s, 1, k) : k \in 0..Len(s)}
Without(s, k) == SubSeq(s, 1, k - 1) \o SubSeq(s, k + 1, Len(s))

\* What parse is called on: short token lists of any kinds, the opening of
\* main followed by a short token list, and the well-formed programs, whole,
\* followed by one more token, cut short at any token, or with one semicolon
\* missing.
ParseInputs ==
    SeqsUpTo(TokenKinds, MaxTokens)
    \cup {kinds_before \o b : b \in SeqsUpTo(BodyKinds, MaxTokens)}
    \cup UNION {Prefixes(p \o <<identifier>>) : p \in WellFormedPrograms}
    \cup UNION {{Without(p, k) : k \in {j \in 1..Len(p) : p[j] = semicolon}}
                : p \in WellFormedPrograms}

\* What parse_expression is called on directly, with the index it is called
\* at: short token lists of the kinds of expressions, and the well-formed
\* expressions, alone, before a semicolon and after a return keyword.
ExprInputs ==
    {<<0, e>> : e \in SeqsUpTo(ExprKinds, MaxExprTokens)}
    \cup {<<0, e>> : e \in WellFormedExprs}
    \cup {<<1, <<return_kw>> \o e \o <<semicolon>> >> : e \in WellFormedExprs}

InitCommon ==
    /\ best_error = None
    /\ main_index = 0
    /\ nodes = <<>>
    /\ stack = <<>>
    /\ stmt_node = None
    /\ stmt_index = 0
    /\ exc = None
    /\ result = None
    /\ logged = <<>>
    /\ raised = <<>>

\* A Parser on a token list, parse_expression called at an index of it.
InitExpr ==
    /\ \E call \in ExprInputs :
           /\ tokens = Lex(call[2])
           /\ expr_index = call[1]
    /\ pc = "expr_loop"
    /\ caller = "none"
    /\ i = expr_index
    /\ m_index = 0
    /\ m_kinds = <<>>
    /\ InitCommon

\* A Parser on a token list, parse called.
Init ==
    /\ \E kinds \in ParseInputs : tokens = Lex(kinds)
    /\ pc = "parse"
    /\ caller = "none"
    /\ expr_index = 0
    /\ i = 0
    /\ m_index = 0
    /\ m_kinds = <<>>
    /\ InitCommon

Next ==
    \/ ParseMainOpening
    \/ ParseReturn
    \/ StatementExcept
    \/ ReduceNumber
    \/ ReduceIdentifier
    \/ ReduceParen
    \/ ReduceBinary
    \/ Shift
    \/ Break
    \/ ExprReturn
    \/ ExprRaise
    \/ ExpectSemicolon
    \/ MainExceptStatement
    \/ ParseDeclaration
    \/ MainExceptDeclaration
    \/ MainClosingBrace
    \/ ParseExcept
    \/ ParseLeftover

Spec == Init /\ [][Next]_vars

\* parse runs on: the interpreter takes the next step of a call that has
\* not ended.
SpecFair == Init /\ [][Next]_vars /\ WF_vars(Next)

NextExpr ==
    \/ ReduceNumber
    \/ ReduceIdentifier
    \/ ReduceParen
    \/ ReduceBinary
    \/ Shift
    \/ Break
    \/ ExprReturn
    \/ ExprRaise

SpecExpr == InitExpr /\ [][NextExpr]_vars

(***************************************************************************)
(* match_tokens called on its own.                                         *)
(***************************************************************************)
\* The kinds of the tokens and of the lists match_tokens is called with.
MatchKinds == {int_kw, identifier, semicolon}

\* A Parser on a token list, match_tokens called with an index of it, the
\* position after the last token included, and a list of kinds.
InitMatch ==
    /\ \E kinds \in SeqsUpTo(MatchKinds, MaxTokens) : tokens = Lex(kinds)
    /\ m_index \in 0..Len(tokens)
    /\ m_kinds \in SeqsUpTo(MatchKinds, MaxKinds)
    /\ pc = "match_tokens"
    /\ caller = "none"
    /\ expr_index = 0
    /\ i = 0
    /\ InitCommon

\* The call of match_tokens ends.
MatchTokens ==
    /\ pc = "match_tokens"
    /\ LET m == match_tokens(m_index, m_kinds)
       IN  result' = IF m = MatchError THEN Raised(MatchError) ELSE m
    /\ pc' = "done"
    /\ UNCHANGED <<frame, caller, expr_index, i, stack, exc, raised>>

NextMatch == MatchTokens

SpecMatch == InitMatch /\ [][NextMatch]_vars

(***************************************************************************)
(* What the claims are stated with: the grammar the parser is to follow,   *)
(* written down independently of the shift-reduce engine.                  *)
(***************************************************************************)
KindsOf(toks) == [p \in 1..Len(toks) |-> toks[p].kind]

Min(S) == CHOOSE x \in S : \A y \in S : x <= y
Max(S) == CHOOSE x \in S : \A y \in S : x >= y

\* The position after the longest run of tokens from position p that
\* parse_expression may shift.
RECURSIVE RunEnd(_)
RunEnd(p) ==
    IF p < Len(tokens) /\ tokens[p + 1].kind \in ExprKinds \ {semicolon}
    THEN RunEnd(p + 1)
    ELSE p

\* The kinds of the tokens parse_expression was called on.
ExprRun == KindsOf(SubSeq(tokens, expr_index + 1, RunEnd(expr_index)))

\* operand (op operand)*, with every op in ops.
IsChain(kinds, ops) ==
    /\ Len(kinds) % 2 = 1
    /\ \A p \in 1..Len(kinds) :
          IF p % 2 = 1 THEN kinds[p] \in {number, identifier}
          ELSE kinds[p] \in ops

\* A well-formed expression: units separated by binary operators, a unit
\* being an operand or a well-formed expression in parentheses.
RECURSIVE IsExpr(_)
IsUnit(kinds) ==
    \/ Len(kinds) = 1 /\ kinds[1] \in {number, identifier}
    \/ /\ Len(kinds) >= 3
       /\ kinds[1] = open_paren
       /\ kinds[Len(kinds)] = close_paren
       /\ IsExpr(SubSeq(kinds, 2, Len(kinds) - 1))
IsExpr(kinds) ==
    \/ IsUnit(kinds)
    \/ \E k \in 2..(Len(kinds) - 1) :
          /\ kinds[k] \in Operators
          /\ IsUnit(SubSeq(kinds, 1, k - 1))
          /\ IsExpr(SubSeq(kinds, k + 1, Len(kinds)))

\* The number of parentheses open before tokens[k], counted from tokens[lo].
RECURSIVE DepthAt(_, _)
DepthAt(lo, k) ==
    IF k <= lo THEN 0
    ELSE DepthAt(lo, k - 1)
         + (IF tokens[k - 1].kind = open_paren THEN 1
            ELSE IF tokens[k - 1].kind = close_paren THEN -1 ELSE 0)

\* The places of the operator op in tokens[lo..hi] outside any parentheses.
TopLevel(lo, hi, op) ==
    {k \in lo..hi : tokens[k].kind = op /\ DepthAt(lo, k) = 0}

\* The tree of the well-formed expression tokens[lo..hi] by the grammar of C:
\* = binds loosest and groups to the right, then + and then *, both grouping
\* to the left; parentheses make a unit.
RECURSIVE ExpectedTree(_, _)
ExpectedTree(lo, hi) ==
    LET split(k) == BinaryOperatorNode(ExpectedTree(lo, k - 1), tokens[k],
                                       ExpectedTree(k + 1, hi))
    IN  IF TopLevel(lo, hi, equals) # {}
        THEN split(Min(TopLevel(lo, hi, equals)))
        ELSE IF TopLevel(lo, hi, plus) # {}
        THEN split(Max(TopLevel(lo, hi, plus)))
        ELSE IF TopLevel(lo, hi, star) # {}
        THEN split(Max(TopLevel(lo, hi, star)))
        ELSE IF tokens[lo].kind = open_paren
        THEN ParenExprNode(ExpectedTree(lo + 1, hi - 1))
        ELSE IF tokens[lo].kind = number
        THEN NumberNode(tokens[lo])
        ELSE IdentifierNode(tokens[lo])

IsOperand(node) == node.type \in {"NumberNode", "IdentifierNode"}
IsBinary(node, op) ==
    node.type = "BinaryOperatorNode" /\ node.operator.kind = op

\* The operand tokens at the leaves of an expression tree, left to right.
RECURSIVE OperandsOf(_)
OperandsOf(node) ==
    IF node.type = "NumberNode" THEN <<node.number>>
    ELSE IF node.type = "IdentifierNode" THEN <<node.identifier>>
    ELSE IF node.type = "ParenExprNode" THEN OperandsOf(node.expr)
    ELSE OperandsOf(node.left_expr) \o OperandsOf(node.right_expr)

\* No + node is a direct child of a * node.
RECURSIVE NoPlusUnderStar(_)
NoPlusUnderStar(node) ==
    IF IsOperand(node) THEN TRUE
    ELSE IF node.type = "ParenExprNode" THEN NoPlusUnderStar(node.expr)
    ELSE /\ IsBinary(node, star) =>
               ~IsBinary(node.left_expr, plus) /\ ~IsBinary(node.right_expr, plus)
         /\ NoPlusUnderStar(node.left_expr)
         /\ NoPlusUnderStar(node.right_expr)

\* ((x1 op x2) op ...) op xn: every right operand is a single operand.
RECURSIVE LeftNested(_)
LeftNested(node) ==
    \/ IsOperand(node)
    \/ /\ node.type = "BinaryOperatorNode"
       /\ IsOperand(node.right_expr)
       /\ LeftNested(node.left_expr)

\* x1 op (x2 op (... op xn)): every left operand is a single operand.
RECURSIVE RightNested(_)
RightNested(node) ==
    \/ IsOperand(node)
    \/ /\ node.type = "BinaryOperatorNode"
       /\ IsOperand(node.left_expr)
       /\ RightNested(node.right_expr)

\* The operand tokens of the run parse_expression was called on.
OperandsOfRun ==
    LET run == SubSeq(tokens, expr_index + 1, RunEnd(expr_index))
    IN  SelectSeq(run, LAMBDA t : t.kind \in {number, identifier})

\* parse_expression returned a node for the whole run it was called on.
ReturnedWholeRun ==
    /\ result.type = "return"
    /\ result.value[2] = RunEnd(expr_index)
    /\ OperandsOf(result.value[1]) = OperandsOfRun

ExprDone == pc = "done" /\ caller = "none"

(***************************************************************************)
(* C1. For every expression of operands, + and * without parentheses,      *)
(* parse_expression returns the tree in which * binds tighter than +: the  *)
(* tree of the grammar, in which no + node is a direct child of a * node;  *)
(* a + b * c yields (a + (b * c)) and a * b + c yields ((a * b) + c).      *)
(***************************************************************************)
C1_PrecedenceRespected ==
    (ExprDone /\ IsChain(ExprRun, {plus, star})) =>
        /\ ReturnedWholeRun
        /\ NoPlusUnderStar(result.value[1])
        /\ result.value[1] = ExpectedTree(expr_index + 1, RunEnd(expr_index))

\* a + b * c was parsed to (a + (b * c)).
C1_Witness ==
    /\ ExprDone
    /\ KindsOf(tokens) = <<identifier, plus, identifier, star, identifier>>
    /\ result = Returned(<<
           BinaryOperatorNode(
               IdentifierNode(tokens[1]), tokens[2],
               BinaryOperatorNode(IdentifierNode(tokens[3]), tokens[4],
                                  IdentifierNode(tokens[5]))),
           5>>)

(***************************************************************************)
(* C2. Assignment is right-associative: for every chain x1 = x2 = ... = xn *)
(* parse_expression returns the tree that groups to the right.             *)
(***************************************************************************)
C2_AssignmentRightAssociative ==
    (ExprDone /\ IsChain(ExprRun, {equals}) /\ Len(ExprRun) >= 3) =>
        /\ ReturnedWholeRun
        /\ RightNested(result.value[1])

\* a = b = c was parsed to (a = (b = c)).
C2_Witness ==
    /\ ExprDone
    /\ KindsOf(tokens) = <<identifier, equals, identifier, equals, identifier>>
    /\ result = Returned(<<
           BinaryOperatorNode(
               IdentifierNode(tokens[1]), tokens[2],
               BinaryOperatorNode(IdentifierNode(tokens[3]), tokens[4],
                                  IdentifierNode(tokens[5]))),
           5>>)

(***************************************************************************)
(* C3. A chain x1 op x2 op ... op xn of one operator, + or *, folds left   *)
(* to right for every length: the tree is left-nested.                     *)
(***************************************************************************)
C3_EqualPrecedenceFoldsLeft ==
    \A op \in {plus, star} :
        (ExprDone /\ IsChain(ExprRun, {op}) /\ Len(ExprRun) >= 3) =>
            /\ ReturnedWholeRun
            /\ LeftNested(result.value[1])

\* a + b + c + d was parsed to (((a + b) + c) + d).
C3_Witness ==
    /\ ExprDone
    /\ KindsOf(tokens) = <<identifier, plus, identifier, plus, identifier,
                           plus, identifier>>
    /\ result = Returned(<<
           BinaryOperatorNode(
               BinaryOperatorNode(
                   BinaryOperatorNode(IdentifierNode(tokens[1]), tokens[2],
                                      IdentifierNode(tokens[3])),
                   tokens[4], IdentifierNode(tokens[5])),
               tokens[6], IdentifierNode(tokens[7])),
           7>>)

(***************************************************************************)
(* C4. Parentheses override precedence: in every well-formed expression    *)
(* each ( expr ) group becomes one ParenExprNode, which is an operand of   *)
(* the operator around it whatever the precedences inside and outside, so  *)
(* the tree returned is the tree of the grammar; (a + b) * c yields        *)
(* (ParenExpr(a + b) * c).                                                 *)
(***************************************************************************)
C4_ParenthesesOverridePrecedence ==
    (/\ ExprDone
     /\ IsExpr(ExprRun)
     /\ \E p \in 1..Len(ExprRun) : ExprRun[p] = open_paren) =>
        /\ ReturnedWholeRun
        /\ result.value[1] = ExpectedTree(expr_index + 1, RunEnd(expr_index))

\* (a + b) * c was parsed to (ParenExpr(a + b) * c).
C4_Witness ==
    /\ ExprDone
    /\ KindsOf(tokens) = <<open_paren, identifier, plus, identifier,
                           close_paren, star, identifier>>
    /\ result = Returned(<<
           BinaryOperatorNode(
               ParenExprNode(
                   BinaryOperatorNode(IdentifierNode(tokens[2]), tokens[3],
                                      IdentifierNode(tokens[4]))),
               tokens[6], IdentifierNode(tokens[7])),
           7>>)

(***************************************************************************)
(* Well-formed programs, for the claims about parse.                       *)
(***************************************************************************)
\* The first semicolon in tokens[lo..hi], or 0.
NextSemicolon(lo, hi) ==
    LET at == {k \in lo..hi : tokens[k].kind = semicolon}
    IN  IF at = {} THEN 0 ELSE Min(at)

\* tokens[lo..hi] cut after each semicolon: the bounds <<first, last>> of the
\* items of a function body.
RECURSIVE ItemBounds(_, _)
ItemBounds(lo, hi) ==
    IF lo > hi THEN <<>>
    ELSE LET k == NextSemicolon(lo, hi)
         IN  IF k = 0 THEN << <<lo, hi>> >>
             ELSE << <<lo, k>> >> \o ItemBounds(k + 1, hi)

\* tokens[lo..hi] is a declaration, a return statement or an expression
\* statement.
IsItem(lo, hi) ==
    LET kinds == KindsOf(SubSeq(tokens, lo, hi))
    IN  /\ tokens[hi].kind = semicolon
        /\ \/ kinds = <<int_kw, identifier, semicolon>>
           \/ /\ kinds[1] = return_kw
              /\ IsExpr(SubSeq(kinds, 2, Len(kinds) - 1))
           \/ IsExpr(SubSeq(kinds, 1, Len(kinds) - 1))

\* The node of the item tokens[lo..hi].
ExpectedItem(lo, hi) ==
    IF tokens[lo].kind = int_kw THEN DeclarationNode(tokens[lo + 1])
    ELSE IF tokens[lo].kind = return_kw
    THEN ReturnNode(ExpectedTree(lo + 1, hi - 1))
    ELSE ExprStatementNode(ExpectedTree(lo, hi - 1))

\* The items of the body between the opening of main and the last token.
BodyItems == ItemBounds(Len(kinds_before) + 1, Len(tokens) - 1)

\* The input is int main ( ) { items } and nothing else.
IsWellFormedProgram ==
    /\ Len(tokens) > Len(kinds_before)
    /\ KindsOf(SubSeq(tokens, 1, Len(kinds_before))) = kinds_before
    /\ tokens[Len(tokens)].kind = close_brack
    /\ \A k \in 1..Len(BodyItems) : IsItem(BodyItems[k][1], BodyItems[k][2])

(***************************************************************************)
(* C5. Completeness: on every well-formed program int main ( ) { items }   *)
(* parse raises no error and returns the main node with one child per      *)
(* item, in source order, each child the node of its item.                 *)
(***************************************************************************)
C5_WellFormedProgramsParse ==
    (pc = "done" /\ IsWellFormedProgram) =>
        result = Returned(MainNode(
                     [k \in 1..Len(BodyItems) |->
                         ExpectedItem(BodyItems[k][1], BodyItems[k][2])]))

\* int main ( ) { int a ; a ; return a ; } was parsed to its three items.
C5_Witness ==
    /\ pc = "done"
    /\ KindsOf(tokens) = kinds_before \o
           <<int_kw, identifier, semicolon, identifier, semicolon,
             return_kw, identifier, semicolon, close_brack>>
    /\ result = Returned(MainNode(<<
           DeclarationNode(tokens[7]),
           ExprStatementNode(IdentifierNode(tokens[9])),
           ReturnNode(IdentifierNode(tokens[12]))>>))

(***************************************************************************)
(* C6. As claimed: whenever the loop of parse_expression stops with a raw  *)
(* token left on the stack or with more than one item on it,               *)
(* parse_expression raises "expected expression" and returns no node.      *)
(***************************************************************************)
DanglingItems(st) ==
    Len(st) > 1 \/ \E k \in 1..Len(st) : IsToken(st[k].item)

C6_NoPartialSuccess ==
    (ExprDone /\ DanglingItems(stack)) =>
        result = Raised(ParserError("expected expression", expr_index, GOT))

(***************************************************************************)
(* C6, amended. When the loop stops with items dangling on the stack,      *)
(* parse_expression raises "expected expression" only if the bottom item   *)
(* is a raw token; if the bottom item is a node it returns that node with  *)
(* the index past the node's tokens, short of the tokens shifted after it. *)
(***************************************************************************)
C6_PartialSuccessFromBottomNode ==
    (ExprDone /\ DanglingItems(stack)) =>
        IF IsToken(stack[1].item)
        THEN result = Raised(ParserError("expected expression", expr_index,
                                         GOT))
        ELSE /\ result = Returned(<<stack[1].item,
                                    expr_index + stack[1].length>>)
             /\ result.value[2] < i

\* a + : the loop stopped with a node and a raw + on the stack, and
\* parse_expression returned the node.
C6_Witness ==
    /\ ExprDone
    /\ KindsOf(tokens) = <<identifier, plus>>
    /\ Len(stack) = 2
    /\ IsToken(stack[2].item)
    /\ result = Returned(<<IdentifierNode(tokens[1]), 1>>)

(***************************************************************************)
(* C7. Best-error invariant: best_error is None iff no error was logged;   *)
(* otherwise it is the logged error of greatest amount_parsed, and of      *)
(* several such the one logged last.                                       *)
(***************************************************************************)
ExpectedBest(log) ==
    IF log = <<>> THEN None
    ELSE LET most == Max({log[k].amount_parsed : k \in 1..Len(log)})
             last == Max({k \in 1..Len(log) : log[k].amount_parsed = most})
         IN  log[last]

C7_BestErrorInvariant ==
    /\ best_error = None <=> logged = <<>>
    /\ best_error = ExpectedBest(logged)

\* Two different errors of the greatest amount_parsed were logged, and
\* best_error is the later one.
C7_Witness ==
    \E j, k \in 1..Len(logged) :
        /\ j < k
        /\ logged[j] # logged[k]
        /\ logged[j].amount_parsed = logged[k].amount_parsed
        /\ \A m \in 1..Len(logged) :
              logged[m].amount_parsed <= logged[k].amount_parsed
        /\ \A m \in (k + 1)..Len(logged) :
              logged[m].amount_parsed < logged[k].amount_parsed
        /\ best_error = logged[k]

(***************************************************************************)
(* C8. When parse fails because parse_main raised, the error parse raises  *)
(* is best_error, every ParserError raised during the call was logged      *)
(* before, and none of them has a greater amount_parsed.                   *)
(***************************************************************************)
MainRaised ==
    /\ pc = "done"
    /\ raised # <<>>
    /\ raised[Len(raised)].by = "parse_main"

C8_DeepestErrorSurfaces ==
    MainRaised =>
        /\ result = Raised(best_error)
        /\ logged = [k \in 1..Len(raised) |-> raised[k].error]
        /\ \A k \in 1..Len(raised) :
              result.error.amount_parsed >= raised[k].error.amount_parsed

\* parse raised an error of an alternative that got further than the error
\* parse_main ended with.
C8_Witness ==
    /\ MainRaised
    /\ result.type = "raise"
    /\ result.error.amount_parsed >
           raised[Len(raised)].error.amount_parsed
    /\ result.error.message = "expected identifier"

(***************************************************************************)
(* C9. Leftover tokens: when parse_main returns an index smaller than the  *)
(* number of tokens, parse raises "unexpected token", anchored AT that     *)
(* index; parse returns the node only when parse_main consumed all tokens. *)
(***************************************************************************)
MainReturned ==
    /\ pc = "done"
    /\ raised = <<>> \/ raised[Len(raised)].by # "parse_main"

C9_LeftoverTokenDetected ==
    /\ (MainReturned /\ main_index < Len(tokens)) =>
           result = Raised(ParserError("unexpected token", main_index, AT))
    /\ (pc = "done" /\ result.type = "return") =>
           /\ MainReturned
           /\ main_index = Len(tokens)
           /\ result = Returned(MainNode(nodes))

\* int main ( ) { return a ; } a : the error is at the token after the brace.
C9_Witness ==
    /\ pc = "done"
    /\ KindsOf(tokens) = kinds_before \o
           <<return_kw, identifier, semicolon, close_brack, identifier>>
    /\ result = Raised(ParserError("unexpected token", 9, AT))

(***************************************************************************)
(* C10. Missing semicolon: when the expression parsed by parse_return is   *)
(* not followed by a semicolon, the error parse raises is "expected        *)
(* semicolon", anchored AFTER, at the index just past the parsed           *)
(* expression, and not an error of the alternatives tried afterwards.      *)
(***************************************************************************)
ReturnLacksSemicolon ==
    \E k \in 1..Len(raised) :
        /\ raised[k].by = "expect_semicolon"
        /\ raised[k].within = "parse_return"

C10_MissingSemicolonDiagnostic ==
    (pc = "done" /\ ReturnLacksSemicolon) =>
        /\ result = Raised(ParserError("expected semicolon", stmt_index,
                                       AFTER))
        /\ tokens[main_index + 1].kind = return_kw
        /\ stmt_index > main_index + 1
        /\ IsExpr(KindsOf(SubSeq(tokens, main_index + 2, stmt_index)))
        /\ stmt_index < Len(tokens) => tokens[stmt_index + 1].kind # semicolon
        /\ IsExpr(KindsOf(SubSeq(tokens, main_index + 2,
                                 RunEnd(main_index + 1))))
               => stmt_index = RunEnd(main_index + 1)

\* int main ( ) { return 4 : the error is after the 4.
C10_Witness ==
    /\ pc = "done"
    /\ KindsOf(tokens) = kinds_before \o <<return_kw, number>>
    /\ ReturnLacksSemicolon
    /\ result = Raised(ParserError("expected semicolon", 7, AFTER))

(***************************************************************************)
(* The exceptions that leave parse.                                        *)
(***************************************************************************)
\* parse returned the root node of the tree.
ParseReturned == pc = "done" /\ result.type = "return"

\* parse raised an exception.
ParseRaised == pc = "done" /\ result.type = "raise"

\* C11: a MatchError never leaves the parser.  Whatever the token list,
\* empty and cut short anywhere included, parse ends by returning a node or
\* by raising a ParserError; the exception in flight between a production
\* and an except clause, every error logged and best_error are ParserErrors,
\* never the MatchError a failed match began with.
C11_MatchErrorNeverEscapes ==
    /\ exc.type \in {"None", "ParserError"}
    /\ best_error.type \in {"None", "ParserError"}
    /\ \A k \in 1..Len(logged) : logged[k].type = "ParserError"
    /\ \A k \in 1..Len(raised) : raised[k].error.type = "ParserError"
    /\ pc = "done" =>
           \/ ParseReturned /\ result.value.type = "MainNode"
           \/ ParseRaised /\ result.error.type = "ParserError"

\* int main ( ) { int, cut short after the type name: the match of the
\* identifier fails for want of a token and surfaces as a ParserError.
C11_Witness ==
    /\ ParseRaised
    /\ KindsOf(tokens) = kinds_before \o <<int_kw>>
    /\ result.error = ParserError("expected identifier", 6, AFTER)

(***************************************************************************)
(* The token matcher.                                                      *)
(***************************************************************************)
\* The tokens from position index on are at least as many as the kinds
\* expected and have these kinds, one by one.
KindsFound(index, kinds_expected) ==
    /\ Len(tokens) - index >= Len(kinds_expected)
    /\ \A k \in 1..Len(kinds_expected) :
           tokens[index + k].kind = kinds_expected[k]

\* C12: match_tokens(index, kinds_expected), for 0 <= index <= len(tokens),
\* returns index + len(kinds_expected) if and only if that many tokens are
\* left from index and the token at index + k has the kind
\* kinds_expected[k] for each k; in every other case it raises MatchError.
\* A position returned never lies past the end of the token list.
C12_MatchTokensFunctional ==
    pc = "done" /\ m_index \in 0..Len(tokens) =>
        /\ result = Returned(m_index + Len(m_kinds))
               <=> KindsFound(m_index, m_kinds)
        /\ ~KindsFound(m_index, m_kinds) => result = Raised(MatchError)
        /\ result.type = "return" => result.value \in m_index..Len(tokens)

\* int matched against int identifier: the one token left has the kind
\* expected first, and the match fails for want of a second token.
C12_Witness ==
    /\ pc = "done"
    /\ KindsOf(tokens) = <<int_kw>>
    /\ m_index = 0
    /\ m_kinds = <<int_kw, identifier>>
    /\ result = Raised(MatchError)

(***************************************************************************)
(* Termination.                                                            *)
(***************************************************************************)
\* The raw tokens on the stack.
RawTokens(st) == {k \in 1..Len(st) : IsToken(st[k].item)}

\* What the loop of parse_expression has left to do at most: three
\* iterations for each token not yet shifted (its shift, its reduction, the
\* reduction that takes it up), and the reductions the stack still allows.
ExprVariant ==
    3 * (Len(tokens) - i) + Len(stack) + Cardinality(RawTokens(stack))

\* All of st below its top k items.
Below(st, k) == SubSeq(st, 1, Len(st) - k)

\* An iteration of the loop of parse_expression that does not break.
ExprIteration == pc = "expr_loop" /\ pc' = "expr_loop"

\* The iteration shifts one token.
ShiftsOne ==
    /\ i' = i + 1
    /\ stack' = Append(stack, StackItem(tokens[i + 1], 1))

\* The iteration replaces the raw token on top of the stack by a node.
ReplacesTopToken ==
    /\ i' = i
    /\ stack # <<>> /\ IsToken(Top(stack, 1).item)
    /\ Len(stack') = Len(stack) /\ IsNode(Top(stack', 1).item)
    /\ Below(stack', 1) = Below(stack, 1)

\* The iteration replaces the three items on top of the stack by one node.
ReplacesThreeByOne ==
    /\ i' = i
    /\ Len(stack) >= 3
    /\ Len(stack') = Len(stack) - 2 /\ IsNode(Top(stack', 1).item)
    /\ Below(stack', 1) = Below(stack, 3)

\* An iteration of the loop of parse_main that does not break: a statement
\* or a declaration was parsed and appended.
MainIteration ==
    pc \in {"expect_semicolon", "parse_declaration"} /\ pc' = "parse_statement"

\* C13: parse terminates on every token list.  Each iteration of the loop of
\* parse_expression that goes on shifts one token, replaces the raw token on
\* top of the stack by a node, or replaces the three top items by one; each
\* lowers ExprVariant, which is never negative and at most three times the
\* number of tokens from the index of the call on, so the iterations are
\* bounded linearly in the tokens left.  Each iteration of the loop of
\* parse_main that goes on advances the position by at least one token.
\* So every call of parse ends.
C13_Termination ==
    /\ [][ExprIteration =>
             /\ ShiftsOne \/ ReplacesTopToken \/ ReplacesThreeByOne
             /\ ExprVariant' < ExprVariant]_vars
    /\ [](pc \in {"expr_loop", "expr_end"} =>
             /\ ExprVariant >= 0
             /\ ExprVariant <= 3 * (Len(tokens) - expr_index))
    /\ [][MainIteration =>
             /\ main_index' >= main_index + 1
             /\ main_index' <= Len(tokens)
             /\ Len(nodes') = Len(nodes) + 1]_vars
    /\ <>(pc = "done")

\* parse ended after two iterations of the loop of parse_main, a statement
\* parsed by parse_expression, and alternatives that failed in between.
C13_Witness ==
    /\ ParseReturned
    /\ Len(nodes) >= 2
    /\ Len(raised) >= 3
    /\ \E k \in 1..Len(nodes) :
           /\ nodes[k].type = "ExprStatementNode"
           /\ nodes[k].expr.type = "BinaryOperatorNode"

(***************************************************************************)
(* The tokens a tree holds.                                                *)
(***************************************************************************)
\* The tokens at the leaves of a tree, read left to right: the tokens the
\* parser handed to the constructors of the nodes.
RECURSIVE Leaves(_)
Leaves(node) ==
    CASE node.type = "NumberNode" -> <<node.number>>
      [] node.type = "IdentifierNode" -> <<node.identifier>>
      [] node.type = "ParenExprNode" -> Leaves(node.expr)
      [] node.type = "BinaryOperatorNode" ->
             Leaves(node.left_expr) \o <<node.operator>>
                 \o Leaves(node.right_expr)
      [] node.type = "ReturnNode" -> Leaves(node.return_value)
      [] node.type = "ExprStatementNode" -> Leaves(node.expr)
      [] node.type = "DeclarationNode" -> <<node.variable_name>>
      [] node.type = "MainNode" ->
             Flatten([k \in 1..Len(node.block_items) |->
                         Leaves(node.block_items[k])])

\* The kinds of the tokens the nodes keep: operands, operators and declared
\* names.
KeptKinds == {number, identifier} \cup Operators

\* C14 as stated: when parse succeeds, the tokens at the leaves of the tree,
\* read left to right, are exactly the input tokens consumed, which are all
\* the tokens.
C14_LeavesAreAllTokens ==
    ParseReturned => Leaves(result.value) = tokens

\* C14, amended: when parse succeeds, the tokens at the leaves of the tree,
\* read left to right, are exactly the input tokens that are operands,
\* operators and declared names, each once and in input order; the tree
\* keeps no keyword, parenthesis, brace or semicolon.
C14_LeavesAreKeptTokens ==
    ParseReturned =>
        Leaves(result.value)
            = SelectSeq(tokens, LAMBDA t : t.kind \in KeptKinds)

\* A program of a declaration and a statement with an operator parsed: the
\* tree holds fewer tokens than were consumed.
C14_Witness ==
    /\ ParseReturned
    /\ \E k \in 1..Len(nodes) : nodes[k].type = "DeclarationNode"
    /\ \E k \in 1..Len(nodes) :
           /\ nodes[k].type = "ReturnNode"
           /\ nodes[k].return_value.type = "BinaryOperatorNode"
    /\ Len(Leaves(result.value)) < Len(tokens)

(***************************************************************************)
(* How far parse_expression reads.                                         *)
(***************************************************************************)
\* The kinds of the n tokens from the index parse_expression was called at.
PrefixFromIndex(n) == KindsOf(SubSeq(tokens, expr_index + 1, expr_index + n))

\* The lengths of the prefixes of the tokens from the index of the call
\* that are well-formed expressions.
WellFormedPrefixes ==
    {n \in 1..(Len(tokens) - expr_index) : IsExpr(PrefixFromIndex(n))}

\* C15: when parse_expression(index) succeeds, the index it returns is the
\* position of the first token that could not be parsed into the expression:
\* the node covers the longest prefix of the tokens from index that is a
\* well-formed expression.
C15_MaximalExpression ==
    ExprDone /\ result.type = "return" =>
        /\ WellFormedPrefixes # {}
        /\ result.value[2] = expr_index + Max(WellFormedPrefixes)

(***************************************************************************)
(* The end of parse_expression.                                            *)
(***************************************************************************)
\* C16: when the loop of parse_expression stops with exactly one item on the
\* stack and the item is a node, parse_expression(index) returns that node
\* and the position index + length of the item, and the position is i, the
\* cursor at the end of the loop: every token shifted is part of the node.
C16_SingleNodeReturned ==
    ExprDone /\ Len(stack) = 1 /\ IsNode(stack[1].item) =>
        /\ result = Returned(<<stack[1].item, expr_index + stack[1].length>>)
        /\ result.value[2] = i

\* return ( a + b ) ; parsed from position 1: one node of five tokens, and
\* the loop stopped at the semicolon.
C16_Witness ==
    /\ ExprDone
    /\ expr_index = 1
    /\ Len(stack) = 1
    /\ stack[1].item.type = "ParenExprNode"
    /\ stack[1].item.expr.type = "BinaryOperatorNode"
    /\ result.type = "return" /\ result.value[2] = 6 /\ i = 6

\* C17: when the loop of parse_expression stops with an empty stack or with
\* a raw token at the bottom of the stack, parse_expression(index) raises
\* the ParserError "expected expression", anchored GOT, at index, the
\* position of the call, however many tokens were shifted; the error
\* reaches the caller and nothing else of the parser changes.
C17_NoExpressionRaises ==
    [][pc = "expr_end" /\ (stack = <<>> \/ IsToken(stack[1].item)) =>
          LET error == ParserError("expected expression", expr_index, GOT)
          IN  /\ raised' = Append(raised, [error |-> error,
                                           by |-> "parse_expression",
                                           within |-> caller])
              /\ exc' = error
              /\ pc' \in {"statement_except", "main_except_statement"}
              /\ UNCHANGED <<tokens, nodes, main_index, best_error, logged,
                             result>>]_vars

\* int main ( ) { return ( a: parse_expression, called at 6, shifted two
\* tokens and raised at 6.
C17_Witness ==
    /\ pc = "statement_except"
    /\ exc = ParserError("expected expression", 6, GOT)
    /\ i = 8
    /\ Len(stack) = 2 /\ IsToken(stack[1].item)

(***************************************************************************)
(* Alternatives that fail.                                                 *)
(***************************************************************************)
\* The except clauses of parse_statement and of the loop of parse_main.
AlternativeHandlers ==
    {"statement_except", "main_except_statement", "main_except_declaration"}

\* An alternative fails: its ParserError is on the way to an except clause
\* of parse_statement or of the loop of parse_main.
AlternativeFails == raised' # raised /\ pc' \in AlternativeHandlers

\* C18: an alternative that fails leaves no trace but in the error tracker.
\* The token list never changes.  The position and the list of nodes of
\* parse_main change only when an item was parsed, never while an
\* alternative runs, fails or is handled.  The except clause that receives
\* the error logs it, whereby best_error becomes the error or stays, and
\* only then the next alternative starts, from the position the failed one
\* started from: the expression statement after the return statement, the
\* declaration after the statement, the end of the loop after the
\* declaration.
C18_BacktrackingFrame ==
    [][/\ tokens' = tokens
       /\ (main_index' # main_index \/ nodes' # nodes) =>
              MainIteration \/ pc \in {"parse", "closing_brace"}
       /\ AlternativeFails =>
              /\ exc' = raised'[Len(raised')].error
              /\ UNCHANGED <<main_index, nodes, best_error, logged>>
       /\ pc \in AlternativeHandlers =>
              /\ exc = raised[Len(raised)].error
              /\ logged' = Append(logged, exc)
              /\ best_error' \in {best_error, exc}
              /\ exc' = None
              /\ UNCHANGED <<main_index, nodes, raised, result>>
       /\ pc = "statement_except" =>
              /\ pc' = "expr_loop"
              /\ caller' = "parse_expr_statement"
              /\ expr_index' = main_index /\ i' = main_index
              /\ stack' = <<>>
       /\ pc = "main_except_statement" => pc' = "parse_declaration"
       /\ pc = "main_except_declaration" => pc' = "closing_brace"
       /\ pc = "parse_declaration" /\ AlternativeFails =>
              raised'[Len(raised')].error.index \in
                  main_index..(main_index + 2)]_vars

\* int main ( ) { a ; a + b }: after the first item both statements failed
\* at 7, the second after reading up to 10; the declaration is tried at 7
\* with the one node kept, and best_error is the error at 10.
C18_Witness ==
    /\ pc = "parse_declaration"
    /\ main_index = 7
    /\ Len(nodes) = 1
    /\ i = 10
    /\ Len(logged) = 3
    /\ logged[2] = ParserError("expected return keyword", 7, GOT)
    /\ best_error = ParserError("expected semicolon", 10, AFTER)

(***************************************************************************)
(* Positions.                                                              *)
(***************************************************************************)
\* The positions the parser holds: the index of parse_main, the index of
\* parse_expression and its cursor, the index of the statement productions.
Positions == {main_index, expr_index, i, stmt_index}

\* parse_expression returns to the production that called it.
ExpressionSucceeds == pc = "expr_end" /\ pc' = "expect_semicolon"

\* parse_main returns to parse.
MainSucceeds == pc = "closing_brace" /\ pc' = "parse_leftover"

\* C19: the positions stay in range.  The index a production is called with
\* or returns and the cursor of parse_expression are never negative and
\* never greater than the number of tokens plus one.  A production that
\* succeeds from a position returns a greater one: parse_expression, the
\* statement and declaration productions, expect_semicolon and parse_main.
C19_PositionsInRange ==
    /\ [](\A p \in Positions : p \in 0..(Len(tokens) + 1))
    /\ [](pc = "expr_loop" => expr_index <= i)
    /\ [][/\ ExpressionSucceeds => stmt_index' > expr_index
          /\ MainIteration /\ pc = "expect_semicolon" =>
                 /\ main_index' = stmt_index + 1
                 /\ stmt_index > main_index
          /\ MainIteration => main_index' > main_index
          /\ MainSucceeds => main_index' > main_index /\ main_index > 0]_vars

\* A program parsed to its last token: parse_main returned the number of
\* tokens, after an item that ends at the token before the closing brace.
C19_Witness ==
    /\ pc = "parse_leftover"
    /\ main_index = Len(tokens)
    /\ stmt_index = Len(tokens) - 2
    /\ Len(nodes) >= 2

(***************************************************************************)
(* The lengths kept on the stack of parse_expression.                      *)
(***************************************************************************)
\* The number of input tokens an expression node was built from: its
\* operands, its operators and both parentheses of each pair.
RECURSIVE TokensIn(_)
TokensIn(node) ==
    CASE node.type = "NumberNode" -> 1
      [] node.type = "IdentifierNode" -> 1
      [] node.type = "ParenExprNode" -> TokensIn(node.expr) + 2
      [] node.type = "BinaryOperatorNode" ->
             TokensIn(node.left_expr) + 1 + TokensIn(node.right_expr)

\* The positions of the first and of the last input token an expression
\* node was built from.
RECURSIVE FirstPos(_), LastPos(_)
FirstPos(node) ==
    CASE node.type = "NumberNode" -> node.number.pos
      [] node.type = "IdentifierNode" -> node.identifier.pos
      [] node.type = "ParenExprNode" -> FirstPos(node.expr) - 1
      [] node.type = "BinaryOperatorNode" -> FirstPos(node.left_expr)
LastPos(node) ==
    CASE node.type = "NumberNode" -> node.number.pos
      [] node.type = "IdentifierNode" -> node.identifier.pos
      [] node.type = "ParenExprNode" -> LastPos(node.expr) + 1
      [] node.type = "BinaryOperatorNode" -> LastPos(node.right_expr)

\* The sum of the lengths of the first k items of the stack.
RECURSIVE LengthsUpTo(_)
LengthsUpTo(k) == IF k = 0 THEN 0 ELSE LengthsUpTo(k - 1) + stack[k].length

\* The position of the first token of the k-th item, if the items lie one
\* after the other from the index of the call on.
StartOf(k) == expr_index + LengthsUpTo(k - 1)

\* C20: at the start of every iteration of the loop of parse_expression the
\* lengths of the stack items sum to i - index; an item that is a raw token
\* has length 1 and is the token at its place; the length of an item that
\* is a node is the number of input tokens the node was built from,
\* operands, operators and both parentheses, and these are the tokens from
\* the place of the item on: the items cover consecutive ranges of the
\* tokens from index to i that do not overlap, in the order of the stack.
C20_SpanAccounting ==
    pc = "expr_loop" =>
        /\ LengthsUpTo(Len(stack)) = i - expr_index
        /\ \A k \in 1..Len(stack) :
               LET it == stack[k]
               IN  IF IsToken(it.item)
                   THEN /\ it.length = 1
                        /\ it.item = tokens[StartOf(k) + 1]
                   ELSE /\ it.length = TokensIn(it.item)
                        /\ FirstPos(it.item) = StartOf(k)
                        /\ LastPos(it.item) = StartOf(k) + it.length - 1
                        /\ \A t \in 1..Len(Leaves(it.item)) :
                               Leaves(it.item)[t].pos
                                   \in StartOf(k)..(StartOf(k) + it.length - 1)

\* return ( a + b ) * c ; parsed from position 1, the operator shifted: a
\* node of five tokens from 1 to 5, then the raw token at 6.
C20_Witness ==
    /\ pc = "expr_loop"
    /\ expr_index = 1
    /\ i = 7
    /\ Len(stack) = 2
    /\ stack[1].item.type = "ParenExprNode" /\ stack[1].length = 5
    /\ IsToken(stack[2].item) /\ stack[2].item.kind = star

====
